---- MODULE Spec2Model ----
(***************************************************************************)
(* Model of src/app.py: a bulk copy of every object of a source bucket to  *)
(* a destination bucket.  main lists the source bucket page by page,       *)
(* submits one transfer_object_streaming call per key to a thread pool,    *)
(* waits for the pool, and then writes one line per future to one of two   *)
(* log files.                                                              *)
(*                                                                         *)
(* Keys are sequences of one-character strings, so that str.replace is     *)
(* modelled by what it does to the characters.                             *)
(***************************************************************************)
EXTENDS Naturals, Sequences, FiniteSets

VARIABLES
    bucket,           \* keys of the source bucket, in listing order
    max_retries,      \* the max_retries argument of transfer_object_streaming
    pc,               \* where main is
    cursor,           \* number of keys the paginator has returned so far
    more,             \* the paginator has another request to issue
    emptyPages,       \* pages without "Contents" returned so far
    page,             \* keys of the current page not yet submitted
    listingFailed,    \* a listing request raised
    futures,          \* main's list `futures`, one key per submitted call
    queue,            \* the executor's work queue
    task,             \* per key: the state of its transfer_object_streaming call
    yielded,          \* futures already yielded by as_completed
    transferred_log,  \* lines written to transfered_all_aws_files.txt
    failed_log,       \* lines written to failed_transfers.txt
    closed,           \* both log files have been closed
    page_number,      \* the loop variable of line 116: pages yielded so far
    dest_objects,     \* the destination bucket: for each key, whose content it holds
    sinkFailed,       \* a write to a log file raised
    mapIn,            \* key mapping on its own: the key
    mapOut            \* key mapping on its own: the results of the calls so far

vars == <<bucket, max_retries, pc, cursor, more, emptyPages, page, listingFailed,
          futures, queue, task, yielded, transferred_log, failed_log, closed,
          page_number, dest_objects, sinkFailed, mapIn, mapOut>>

runVars == <<bucket, max_retries, pc, cursor, more, emptyPages, page, listingFailed,
             futures, queue, task, yielded, transferred_log, failed_log, closed,
             page_number, dest_objects, sinkFailed>>

Range(s) == {s[i] : i \in DOMAIN s}

Min(a, b) == IF a <= b THEN a ELSE b

(***************************************************************************)
(* Bounds of the model.  main configures a pool of 10 threads and pages of *)
(* 10 keys ("adjust as needed"); the model scales both down so that a      *)
(* bucket of MaxObjects keys spans several pages and outnumbers the pool.  *)
(***************************************************************************)
MaxObjects == 3
max_workers == 2
PageSize == 2
MaxEmptyPages == 1
MaxPieces == 3
MaxCalls == 2

\* main passes max_retries = 3; the model runs the worker for 1..MaxRetries.
MaxRetries == 3

(***************************************************************************)
(* Key mapping (line 41): obj_key.replace("dentons_01", "bl_01", 1).       *)
(***************************************************************************)
OldRoot == <<"d", "e", "n", "t", "o", "n", "s", "_", "0", "1">>
NewRoot == <<"b", "l", "_", "0", "1">>

\* s has `old` at position i
OccursAt(s, old, i) ==
    /\ i >= 1
    /\ i + Len(old) - 1 <= Len(s)
    /\ SubSeq(s, i, i + Len(old) - 1) = old

\* str.find: the lowest position >= i at which `old` occurs in s, 0 when none
RECURSIVE Find(_, _, _)
Find(s, old, i) ==
    IF i + Len(old) - 1 > Len(s) THEN 0
    ELSE IF OccursAt(s, old, i) THEN i
    ELSE Find(s, old, i + 1)

\* str.replace(old, new, count): the first `count` non-overlapping occurrences,
\* left to right
RECURSIVE Replace(_, _, _, _)
Replace(s, old, new, count) ==
    IF count = 0 THEN s
    ELSE LET i == Find(s, old, 1) IN
         IF i = 0 THEN s
         ELSE SubSeq(s, 1, i - 1) \o new
              \o Replace(SubSeq(s, i + Len(old), Len(s)), old, new, count - 1)

\* the call without its count argument: every occurrence is replaced
NewKeyReplaceAll(obj_key) == Replace(obj_key, OldRoot, NewRoot, Len(obj_key))

\* line 41
NewKey(obj_key) == Replace(obj_key, OldRoot, NewRoot, 1)

(***************************************************************************)
(* The source bucket.  A bucket holds distinct keys; the model draws it    *)
(* from the keys below, listed in this order.                              *)
(***************************************************************************)
RunKeys ==
    << OldRoot \o <<"/", "a">>,
       NewRoot \o <<"/", "a">>,
       <<"m", "/", "a">>,
       OldRoot \o <<"/">> \o OldRoot >>

RECURSIVE Restrict(_, _)
Restrict(s, S) ==
    IF s = <<>> THEN <<>>
    ELSE IF Head(s) \in S THEN <<Head(s)>> \o Restrict(Tail(s), S)
    ELSE Restrict(Tail(s), S)

Buckets ==
    {Restrict(RunKeys, S) :
        S \in {T \in SUBSET Range(RunKeys) : Cardinality(T) <= MaxObjects}}

(***************************************************************************)
(* One call of transfer_object_streaming (lines 24-61).                    *)
(*   st       "none" not submitted, "queued" in the executor's queue,      *)
(*            "running", "returned" (a tuple), "returned_none" (fell off   *)
(*            the end of the loop), "raised" (an exception left the call)  *)
(*   new_key  the destination key (line 41)                                *)
(*   attempt  the loop variable of line 42                                 *)
(*   step     the store call the current attempt is at: "get" (line 45)    *)
(*            or "put" (line 50)                                           *)
(*   success  the third component of the returned tuple                    *)
(*   attempts number of attempts started (each starts with one get_object) *)
(*   fails    number of attempts that ended in a ClientError               *)
(*   starts   number of times a pool thread has taken the call up          *)
(***************************************************************************)
NoTask ==
    [st |-> "none", new_key |-> <<>>, attempt |-> 0, step |-> "get",
     success |-> FALSE, attempts |-> 0, fails |-> 0, starts |-> 0]

\* What a store call can do: succeed, raise a ClientError, or raise another
\* exception (botocore's connection, timeout and stream errors are not
\* ClientErrors).
StoreOutcomes == {"ok", "ClientError", "OtherError"}

\* the failure is returned without looking at the attempt number
AnyAttemptIsLast(attempt) == TRUE

\* line 60
IsLastAttempt(attempt) == attempt = max_retries

\* lines 58-61, and the step of the for loop of line 42
OnClientError(t) ==
    LET failed == [t EXCEPT !.fails = t.fails + 1, !.step = "get"] IN
    IF IsLastAttempt(t.attempt)
    THEN [failed EXCEPT !.st = "returned", !.success = FALSE]
    ELSE IF t.attempt < max_retries
    THEN [failed EXCEPT !.attempt = t.attempt + 1]
    ELSE [failed EXCEPT !.st = "returned_none"]

\* an exception that is no ClientError is not caught by line 58
OnOtherError(t) == [t EXCEPT !.st = "raised"]

\* lines 45-46: the attempt starts with get_object
GetResult(t, outcome) ==
    LET started == [t EXCEPT !.attempts = t.attempts + 1] IN
    IF outcome = "ok" THEN [started EXCEPT !.step = "put"]
    ELSE IF outcome = "ClientError" THEN OnClientError(started)
    ELSE OnOtherError(started)

\* line 57 without its return: the loop goes on after a successful upload
PutResultNoReturn(t, outcome) ==
    IF outcome = "ok"
    THEN IF t.attempt < max_retries
         THEN [t EXCEPT !.attempt = t.attempt + 1, !.step = "get"]
         ELSE [t EXCEPT !.st = "returned_none"]
    ELSE IF outcome = "ClientError" THEN OnClientError(t)
    ELSE OnOtherError(t)

\* lines 50-57: upload_fileobj, and the return of line 57 when it succeeds
PutResult(t, outcome) ==
    IF outcome = "ok" THEN [t EXCEPT !.st = "returned", !.success = TRUE]
    ELSE IF outcome = "ClientError" THEN OnClientError(t)
    ELSE OnOtherError(t)

Running == {k \in DOMAIN task : task[k].st = "running"}

\* a pool that starts a thread for every call
AlwaysIdleWorker == TRUE

\* ThreadPoolExecutor(max_workers=...): a queued call starts only on a free thread
HasIdleWorker == Cardinality(Running) < max_workers

\* nothing waits for a call to finish
FutureDoneUnchecked(k) == TRUE

\* Future.done()
FutureDone(k) == task[k].st \in {"returned", "returned_none", "raised"}

\* the keys the paginator has returned so far
Listed == SubSeq(bucket, 1, cursor)

\* the future is not kept
ForgetFuture(fs, k) == fs

\* line 134
AppendFuture(fs, k) == Append(fs, k)

\* the exception is swallowed and the keys listed so far are taken for all
ListErrorEndsListing == "shutdown"

\* an exception raised by the page iterator leaves the for loop of line 116
\* and the with block of line 115
AfterListError == "abort_wait"

\* the source key written on both sides of the arrow
LogLineSourceTwice(orig_key, new_key) ==
    [orig |-> orig_key, new |-> orig_key,
     text |-> orig_key \o <<" ", "-", ">", " ">> \o orig_key \o <<"\n">>]

\* lines 140 and 142: the line written for a future's result,
\* f"{orig_key} -> {new_key}\n", kept with the two keys it was formatted from
LogLine(orig_key, new_key) ==
    [orig |-> orig_key, new |-> new_key,
     text |-> orig_key \o <<" ", "-", ">", " ">> \o new_key \o <<"\n">>]

RunInit(b, r) ==
    /\ bucket = b
    /\ max_retries = r
    /\ pc = "list"
    /\ cursor = 0
    /\ more = TRUE
    /\ emptyPages = 0
    /\ page = <<>>
    /\ listingFailed = FALSE
    /\ futures = <<>>
    /\ queue = <<>>
    /\ task = [k \in Range(b) |-> NoTask]
    /\ yielded = {}
    /\ transferred_log = <<>>
    /\ failed_log = <<>>
    /\ closed = FALSE
    /\ page_number = 0
    /\ dest_objects = {}
    /\ sinkFailed = FALSE

Init ==
    /\ \E b \in Buckets : \E r \in 1..MaxRetries : RunInit(b, r)
    /\ mapIn = <<>>
    /\ mapOut = <<>>

(***************************************************************************)
(* main, lines 103-134: listing and submission.                            *)
(***************************************************************************)
\* after a page: the next request, or the end of the with block
AfterPage(m) == IF m THEN "list" ELSE "shutdown"

\* line 120 as a break: a page without "Contents" ends the listing
BreakOnEmptyPage(m) == "shutdown"

\* lines 118-120: a page without "Contents" is skipped, the loop continues
AfterEmptyPage(m) == AfterPage(m)

\* The paginator issues the next list_objects_v2 request and it returns the
\* next keys, at most PageSize of them.  A response without keys has no
\* "Contents" (lines 118-120).
ListPage ==
    /\ pc = "list"
    /\ more
    /\ LET n == Min(PageSize, Len(bucket) - cursor)
           m == cursor + n < Len(bucket)
       IN /\ cursor' = cursor + n
          /\ more' = m
          /\ page' = SubSeq(bucket, cursor + 1, cursor + n)
          /\ pc' = IF n = 0 THEN AfterEmptyPage(m) ELSE "submit"
    /\ page_number' = page_number + 1
    /\ UNCHANGED <<bucket, max_retries, emptyPages, listingFailed, futures, queue,
                   task, yielded, transferred_log, failed_log, closed, mapIn, mapOut,
                   dest_objects, sinkFailed>>

\* The store answers with a truncated page that carries no keys: line 120
\* continues with the next page.
ListEmptyPage ==
    /\ pc = "list"
    /\ more
    /\ cursor < Len(bucket)
    /\ emptyPages < MaxEmptyPages
    /\ emptyPages' = emptyPages + 1
    /\ page_number' = page_number + 1
    /\ pc' = AfterEmptyPage(more)
    /\ UNCHANGED <<bucket, max_retries, cursor, more, page, listingFailed,
                   futures, queue, task, yielded, transferred_log, failed_log,
                   closed, mapIn, mapOut, dest_objects, sinkFailed>>

\* The listing request raises: nothing in main catches it.
ListFail ==
    /\ pc = "list"
    /\ more
    /\ listingFailed' = TRUE
    /\ pc' = AfterListError
    /\ UNCHANGED <<bucket, max_retries, cursor, more, emptyPages, page, futures,
                   queue, task, yielded, transferred_log, failed_log, closed,
                   mapIn, mapOut,
                   page_number, dest_objects, sinkFailed>>

\* the result of the previous call is awaited before the next is submitted
SubmitWaitsForPrevious ==
    \A k \in DOMAIN task : task[k].st \notin {"queued", "running"}

\* line 125: executor.submit puts the call in the executor's unbounded queue
\* and returns at once, whatever the pool is doing
SubmitDoesNotBlock == TRUE

\* lines 122-134: executor.submit for the next key of the page
Submit ==
    /\ pc = "submit"
    /\ page # <<>>
    /\ SubmitDoesNotBlock
    /\ LET obj_key == Head(page) IN
          /\ queue' = Append(queue, obj_key)
          /\ task' = [task EXCEPT ![obj_key].st = "queued"]
          /\ futures' = AppendFuture(futures, obj_key)
    /\ page' = Tail(page)
    /\ pc' = IF Tail(page) = <<>> THEN AfterPage(more) ELSE "submit"
    /\ UNCHANGED <<bucket, max_retries, cursor, more, emptyPages, listingFailed,
                   yielded, transferred_log, failed_log, closed, mapIn, mapOut,
                   page_number, dest_objects, sinkFailed>>

(***************************************************************************)
(* The pool's threads.                                                     *)
(***************************************************************************)
\* the thread reads the oldest call and leaves it in the queue
Peek(q) == q

\* the executor's work queue hands each call to one thread
Dequeue(q) == Tail(q)

\* A free thread takes the oldest queued call and enters the function:
\* line 41 computes new_key, line 42 starts the loop.
Start ==
    /\ queue # <<>>
    /\ HasIdleWorker
    /\ LET k == Head(queue) IN
          task' = [task EXCEPT ![k] =
                      [@ EXCEPT !.st = "running", !.new_key = NewKey(k), !.attempt = 1,
                                !.step = "get", !.starts = @ + 1]]
    /\ queue' = Dequeue(queue)
    /\ UNCHANGED <<bucket, max_retries, pc, cursor, more, emptyPages, page,
                   listingFailed, futures, yielded, transferred_log, failed_log,
                   closed, mapIn, mapOut,
                   page_number, dest_objects, sinkFailed>>

\* get_object of the current attempt of a running call
Get(k) ==
    /\ task[k].st = "running"
    /\ task[k].step = "get"
    /\ \E outcome \in StoreOutcomes :
          task' = [task EXCEPT ![k] = GetResult(task[k], outcome)]
    /\ UNCHANGED <<bucket, max_retries, pc, cursor, more, emptyPages, page,
                   listingFailed, futures, queue, yielded, transferred_log,
                   failed_log, closed, mapIn, mapOut,
                   page_number, dest_objects, sinkFailed>>

\* the upload is made under the source key
PutUnderSourceKey(k, t) == k

\* line 53: Key=new_key
PutKey(k, t) == t.new_key

\* the destination bucket after a successful upload of the content of source
\* key src under `key`: an earlier object under that key is replaced
Stored(objects, key, src) ==
    {o \in objects : o.key # key} \cup {[key |-> key, src |-> src]}

\* upload_fileobj of the current attempt of a running call
Put(k) ==
    /\ task[k].st = "running"
    /\ task[k].step = "put"
    /\ \E outcome \in StoreOutcomes :
          /\ task' = [task EXCEPT ![k] = PutResult(task[k], outcome)]
          /\ dest_objects' = IF outcome = "ok"
                             THEN Stored(dest_objects, PutKey(k, task[k]), k)
                             ELSE dest_objects
    /\ UNCHANGED <<bucket, max_retries, pc, cursor, more, emptyPages, page,
                   listingFailed, futures, queue, yielded, transferred_log,
                   failed_log, closed, mapIn, mapOut, page_number, sinkFailed>>

(***************************************************************************)
(* main, lines 115 and 136-147: the end of the with block and the logs.    *)
(***************************************************************************)
\* the pool is left without waiting for it, as with shutdown(wait=False)
PoolNotAwaited == TRUE

\* ThreadPoolExecutor.__exit__ is shutdown(wait=True): it returns once every
\* submitted call has finished, whether the block ended normally or not.
PoolDrained == \A k \in DOMAIN task : task[k].st = "none" \/ FutureDone(k)

ExitPool ==
    /\ pc = "shutdown"
    /\ PoolDrained
    /\ pc' = "collect"
    /\ UNCHANGED <<bucket, max_retries, cursor, more, emptyPages, page,
                   listingFailed, futures, queue, task, yielded, transferred_log,
                   failed_log, closed, mapIn, mapOut,
                   page_number, dest_objects, sinkFailed>>

\* the exception of the listing request goes on out of main
ExitPoolRaising ==
    /\ pc = "abort_wait"
    /\ PoolDrained
    /\ pc' = "aborted"
    /\ UNCHANGED <<bucket, max_retries, cursor, more, emptyPages, page,
                   listingFailed, futures, queue, task, yielded, transferred_log,
                   failed_log, closed, mapIn, mapOut,
                   page_number, dest_objects, sinkFailed>>

\* lines 137-142: as_completed yields a finished future, in no fixed order;
\* future.result() re-raises what the call raised, and unpacking None raises.
Collect(k) ==
    /\ pc = "collect"
    /\ k \in Range(futures) \ yielded
    /\ FutureDone(k)
    /\ yielded' = yielded \cup {k}
    /\ IF task[k].st \in {"raised", "returned_none"}
       THEN /\ pc' = "crashed"
            /\ UNCHANGED <<transferred_log, failed_log>>
       ELSE /\ pc' = pc
            /\ IF task[k].success
               THEN /\ transferred_log' =
                          Append(transferred_log, LogLine(k, task[k].new_key))
                    /\ UNCHANGED failed_log
               ELSE /\ failed_log' = Append(failed_log, LogLine(k, task[k].new_key))
                    /\ UNCHANGED transferred_log
    /\ UNCHANGED <<bucket, max_retries, cursor, more, emptyPages, page,
                   listingFailed, futures, queue, task, closed, mapIn, mapOut,
                   page_number, dest_objects, sinkFailed>>

\* the exception of the write is swallowed and the loop goes on
SinkErrorIgnored == "collect"

\* nothing in main catches an exception of lines 140 and 142: it ends main
AfterSinkError == "sink_error"

\* lines 140 and 142 when the write to the log file raises (a full disk, an
\* I/O error): the line of this future is not written.
CollectWriteFails(k) ==
    /\ pc = "collect"
    /\ k \in Range(futures) \ yielded
    /\ FutureDone(k)
    /\ task[k].st = "returned"
    /\ yielded' = yielded \cup {k}
    /\ sinkFailed' = TRUE
    /\ pc' = AfterSinkError
    /\ UNCHANGED <<bucket, max_retries, cursor, more, emptyPages, page,
                   listingFailed, futures, queue, task, transferred_log,
                   failed_log, closed, mapIn, mapOut, page_number, dest_objects>>

\* lines 144-148
Finish ==
    /\ pc = "collect"
    /\ Range(futures) \subseteq yielded
    /\ closed' = TRUE
    /\ pc' = "done"
    /\ UNCHANGED <<bucket, max_retries, cursor, more, emptyPages, page,
                   listingFailed, futures, queue, task, yielded, transferred_log,
                   failed_log, mapIn, mapOut,
                   page_number, dest_objects, sinkFailed>>

Next ==
    \/ ListPage
    \/ ListEmptyPage
    \/ ListFail
    \/ Submit
    \/ Start
    \/ \E k \in DOMAIN task : Get(k)
    \/ \E k \in DOMAIN task : Put(k)
    \/ ExitPool
    \/ ExitPoolRaising
    \/ \E k \in DOMAIN task : Collect(k)
    \/ \E k \in DOMAIN task : CollectWriteFails(k)
    \/ Finish

Spec == Init /\ [][Next]_vars

\* main's thread and the pool's threads keep running: a step of main that is
\* possible is taken, and so is a step of the pool (a free thread taking a
\* queued call, a store call returning).
MainStep ==
    \/ ListPage
    \/ ListEmptyPage
    \/ ListFail
    \/ Submit
    \/ ExitPool
    \/ ExitPoolRaising
    \/ \E k \in DOMAIN task : Collect(k)
    \/ \E k \in DOMAIN task : CollectWriteFails(k)
    \/ Finish

PoolStep ==
    \/ Start
    \/ \E k \in DOMAIN task : Get(k)
    \/ \E k \in DOMAIN task : Put(k)

FairSpec == Init /\ [][Next]_vars /\ WF_vars(MainStep) /\ WF_vars(PoolStep)

(***************************************************************************)
(* The key mapping on its own: NewKey applied to keys built from pieces    *)
(* that contain, miss and straddle "dentons_01".                           *)
(***************************************************************************)
Pieces ==
    { OldRoot, NewRoot, <<"/">>, <<"a">>,
      <<"d", "e", "n", "t", "o", "n", "s", "_", "0">>, <<"1">> }

RECURSIVE Concats(_)
Concats(n) ==
    IF n = 0 THEN {<<>>}
    ELSE Concats(n - 1) \cup {p \o s : p \in Pieces, s \in Concats(n - 1)}

KeyInputs == Concats(MaxPieces)

InitKeyMap ==
    /\ mapIn \in KeyInputs
    /\ mapOut = <<>>
    /\ RunInit(<<>>, MaxRetries)

MapKey ==
    /\ Len(mapOut) < MaxCalls
    /\ mapOut' = Append(mapOut, NewKey(mapIn))
    /\ UNCHANGED <<mapIn, runVars>>

NextKeyMap == MapKey

SpecKeyMap == InitKeyMap /\ [][NextKeyMap]_vars

(***************************************************************************)
(* Properties.                                                             *)
(***************************************************************************)
\* the lines of both logs, and how many of them name key k
Recorded == transferred_log \o failed_log

TimesRecorded(k) == Cardinality({i \in DOMAIN Recorded : Recorded[i].orig = k})

RetryBound ==
    \A k \in DOMAIN task :
        LET t == task[k] IN
        /\ t.attempts <= max_retries
        /\ t.attempt <= max_retries
        /\ (t.st = "returned" /\ t.success) => t.attempts <= max_retries
        /\ (t.st = "returned" /\ ~t.success) =>
               (t.attempts = max_retries /\ t.fails = max_retries)

RetryBoundWitness ==
    /\ max_retries = 3
    /\ \E k \in DOMAIN task :
          task[k].st = "returned" /\ ~task[k].success /\ task[k].attempts = 3
    /\ \E k \in DOMAIN task :
          task[k].st = "returned" /\ task[k].success /\ task[k].attempts = 3

\* C3: a call that returns after the store failed its first f attempts returns
\* success with attempt number f + 1 when f < max_retries, and failure when
\* f >= max_retries; once it has returned, no store call is made for its key.
InjectedFailures ==
    /\ [](\A k \in DOMAIN task :
            LET t == task[k] IN
            t.st = "returned" =>
                IF t.fails < max_retries
                THEN t.success /\ t.attempt = t.fails + 1 /\ t.attempts = t.fails + 1
                ELSE ~t.success)
    /\ [][\A k \in DOMAIN task : task[k].st = "returned" => task'[k] = task[k]]_vars

InjectedFailuresWitness ==
    /\ max_retries = 3
    /\ \E k \in DOMAIN task :
          /\ task[k].st = "returned"
          /\ task[k].success
          /\ task[k].fails = 2
          /\ task[k].attempt = 3

\* C4 (as claimed): no failure of get_object or upload_fileobj leaves the
\* call, and none ends the run before the logs are written.
TransferErrorsAbsorbed ==
    /\ \A k \in DOMAIN task : task[k].st # "raised"
    /\ pc # "crashed"

\* C5: at most max_workers calls of transfer_object_streaming are running.
ConcurrencyBound == Cardinality(Running) <= max_workers

ConcurrencyBoundWitness ==
    /\ Cardinality(Running) = max_workers
    /\ queue # <<>>

\* C6: the run is completed (logs closed, line 147) only when every submitted
\* call has returned its result.
CompletionBarrier ==
    pc = "done" =>
        /\ closed
        /\ \A i \in DOMAIN futures : task[futures[i]].st = "returned"

CompletionBarrierWitness ==
    /\ pc = "done"
    /\ Len(futures) >= 3

\* C7 (as claimed): when a listing request has failed and the run has ended,
\* every key listed before the failure has exactly one line in the logs.
OutcomesSurviveFatalError ==
    pc = "aborted" => \A k \in Range(Listed) : TimesRecorded(k) = 1

\* C8: once a listing request has failed, main never reaches the collection
\* of results or the completed state, and at all times every line of the logs
\* names a key the paginator returned.
EnumerationFailureAborts ==
    /\ listingFailed => pc \in {"abort_wait", "aborted"}
    /\ \A i \in DOMAIN Recorded : Recorded[i].orig \in Range(Listed)

EnumerationFailureWitness ==
    /\ pc = "aborted"
    /\ cursor > 0
    /\ cursor < Len(bucket)
    /\ \E k \in DOMAIN task : task[k].st = "returned"

\* C9 (as claimed): after a listing request has failed, no attempt is started
\* for any key.
NoAttemptAfterFatalError ==
    [][listingFailed =>
          \A k \in DOMAIN task : task'[k].attempts = task[k].attempts]_vars

\* C10: every result of mapping a key is the key with its first occurrence of
\* "dentons_01" replaced by "bl_01" and everything after it kept, or the key
\* itself when "dentons_01" does not occur; repeated calls agree.
RootAt(key, p) ==
    /\ p + Len(OldRoot) - 1 <= Len(key)
    /\ \A j \in 1..Len(OldRoot) : key[p + j - 1] = OldRoot[j]

FirstOccurrenceReplaced(key, out) ==
    IF \E p \in 1..Len(key) : RootAt(key, p)
    THEN \E p \in 1..Len(key) :
            /\ RootAt(key, p)
            /\ \A q \in 1..(p - 1) : ~RootAt(key, q)
            /\ out = SubSeq(key, 1, p - 1) \o NewRoot
                     \o SubSeq(key, p + Len(OldRoot), Len(key))
    ELSE out = key

KeyMapFirstOccurrence ==
    /\ \A i \in DOMAIN mapOut : FirstOccurrenceReplaced(mapIn, mapOut[i])
    /\ \A i, j \in DOMAIN mapOut : mapOut[i] = mapOut[j]

KeyMapWitness ==
    /\ mapIn = OldRoot \o <<"/">> \o OldRoot
    /\ Len(mapOut) = 2
    /\ mapOut[2] = NewRoot \o <<"/">> \o OldRoot
\* C11: every line of the succeeded log is the line of a call that returned
\* success, every line of the failed log that of a call that returned failure;
\* a line is the source key, " -> ", the mapped key and a newline; when the run
\* has completed and no attempt has failed, the succeeded log has one line per
\* listed key and the failed log none.
ArrowLine(key, out) == key \o <<" ", "-", ">", " ">> \o out \o <<"\n">>

WellFormedLine(l) ==
    /\ FirstOccurrenceReplaced(l.orig, l.new)
    /\ l.text = ArrowLine(l.orig, l.new)

OutcomesRouted ==
    /\ \A i \in DOMAIN transferred_log :
          LET l == transferred_log[i] IN
          /\ WellFormedLine(l)
          /\ task[l.orig].st = "returned" /\ task[l.orig].success
          /\ \A j \in DOMAIN failed_log : failed_log[j].orig # l.orig
    /\ \A i \in DOMAIN failed_log :
          LET l == failed_log[i] IN
          /\ WellFormedLine(l)
          /\ task[l.orig].st = "returned" /\ ~task[l.orig].success
    /\ (pc = "done" /\ \A k \in DOMAIN task : task[k].fails = 0) =>
          /\ {transferred_log[i].orig : i \in DOMAIN transferred_log} = Range(Listed)
          /\ Len(transferred_log) = Len(Listed)
          /\ failed_log = <<>>

OutcomesRoutedWitness ==
    /\ pc = "done"
    /\ \A k \in DOMAIN task : task[k].fails = 0
    /\ Len(transferred_log) = 3
    /\ failed_log = <<>>
    /\ \E i \in DOMAIN transferred_log :
          transferred_log[i].new # transferred_log[i].orig
\* C12 (as claimed): a run over an empty bucket whose listing does not fail
\* submits nothing, writes nothing, and does not end in the ordinary completed
\* state of line 147 but in an outcome of its own.
EmptyBucketDistinctOutcome ==
    (bucket = <<>> /\ ~listingFailed) =>
        /\ pc # "done"
        /\ futures = <<>>
        /\ Recorded = <<>>

\* C13: a page has at most PageSize keys; the keys submitted so far followed
\* by the rest of the current page are the keys listed so far, in order; when
\* the listing has ended without an error every key of the bucket has been
\* listed and submitted exactly once, in ceil(n / PageSize) pages with keys,
\* whatever pages without keys came in between.
PagesWithKeys == page_number - emptyPages

PaginationComplete ==
    /\ Len(page) <= PageSize
    /\ futures \o page = Listed
    /\ pc \in {"shutdown", "collect", "done", "crashed", "sink_error"} =>
          /\ Listed = bucket
          /\ futures = bucket
          /\ \A k \in Range(bucket) :
                Cardinality({i \in DOMAIN futures : futures[i] = k}) = 1
          /\ bucket # <<>> =>
                /\ (PagesWithKeys - 1) * PageSize < Len(bucket)
                /\ Len(bucket) <= PagesWithKeys * PageSize

PaginationWitness ==
    /\ pc = "done"
    /\ Len(bucket) = 3
    /\ emptyPages = 1
    /\ page_number = 3
    /\ futures = bucket
\* C14: once a write to a log file has failed, main has ended with that
\* error: it never goes on collecting and never reports completion.
SinkFailureIsFatal ==
    sinkFailed => (pc = "sink_error" /\ ~closed)

SinkFailureWitness ==
    /\ sinkFailed
    /\ pc = "sink_error"
    /\ Len(Recorded) >= 1
    /\ Len(Recorded) + 1 < Len(futures)
\* C15: every listed key is submitted once and taken up by one pool thread;
\* a call has at most one attempt that has started and not ended, so an attempt
\* starts only when all earlier attempts of the call have failed; a call that
\* a thread has taken up is not in the executor's queue again.
AttemptsInFlight(t) ==
    t.attempts - t.fails
    - (IF t.st = "returned" /\ t.success THEN 1 ELSE 0)
    - (IF t.st = "raised" THEN 1 ELSE 0)

TimesIn(s, k) == Cardinality({i \in DOMAIN s : s[i] = k})

RetriesLocalAndSequential ==
    \A k \in DOMAIN task :
        LET t == task[k] IN
        /\ TimesIn(futures, k) = (IF t.st = "none" THEN 0 ELSE 1)
        /\ TimesIn(queue, k) = (IF t.st = "queued" THEN 1 ELSE 0)
        /\ t.starts = (IF t.st \in {"none", "queued"} THEN 0 ELSE 1)
        /\ t.fails <= t.attempts
        /\ AttemptsInFlight(t) \in {0, 1}
        /\ AttemptsInFlight(t) = 1 <=> t.st = "running" /\ t.step = "put"
        /\ t.st = "running" => t.attempt = t.fails + 1

RetriesLocalWitness ==
    \E k \in DOMAIN task :
        /\ task[k].st = "running"
        /\ task[k].attempt = 3
        /\ task[k].step = "put"
        /\ task[k].fails = 2
        /\ queue # <<>>
\* C16: whenever main is at the submission of a key, the submission can take
\* place at once, whatever the calls submitted before are doing; so calls run
\* while later pages are still to be listed, and more calls than the pool has
\* threads are submitted while none has finished.
SubmissionNeverWaits ==
    pc = "submit" => ENABLED Submit

\* a call is running or has finished while a later page is still to be listed
OverlapWitness ==
    /\ pc = "list"
    /\ more
    /\ \E k \in DOMAIN task : task[k].st = "running"
    /\ \E k \in DOMAIN task : task[k].st = "returned"

\* more calls submitted than the pool has threads, none finished
BacklogWitness ==
    /\ Len(futures) > max_workers
    /\ Cardinality(Running) = max_workers
    /\ \A k \in DOMAIN task : task[k].st \in {"none", "queued", "running"}
\* C17: the log files only grow, by one whole line per step of main's
\* collecting loop, and a line is written only when no call is queued or
\* running in the pool.
IsPrefix(s, t) == Len(s) <= Len(t) /\ SubSeq(t, 1, Len(s)) = s

SinkWritesSerialized ==
    [][/\ IsPrefix(transferred_log, transferred_log')
       /\ IsPrefix(failed_log, failed_log')
       /\ Len(transferred_log') + Len(failed_log')
             <= Len(transferred_log) + Len(failed_log) + 1
       /\ (transferred_log' # transferred_log \/ failed_log' # failed_log) =>
             /\ pc = "collect"
             /\ \A k \in DOMAIN task : task[k].st \notin {"queued", "running"}]_vars

SinkWritesWitness ==
    /\ pc = "collect"
    /\ transferred_log # <<>>
    /\ failed_log # <<>>
    /\ yielded # Range(futures)
\* C18: the destination key of a call does not change once line 41 has
\* computed it; every object the call has stored in the destination bucket is
\* stored under that key; the line written for the call carries that key, and
\* for a call that succeeded an object exists under it.
DestKeyFixed ==
    /\ [](/\ \A o \in dest_objects : o.key = task[o.src].new_key
          /\ \A i \in DOMAIN Recorded :
                Recorded[i].new = task[Recorded[i].orig].new_key
          /\ \A i \in DOMAIN transferred_log :
                \E o \in dest_objects : o.key = transferred_log[i].new)
    /\ [][\A k \in DOMAIN task :
             task[k].st \notin {"none", "queued"} =>
                 task'[k].new_key = task[k].new_key]_vars

DestKeyFixedWitness ==
    \E i \in DOMAIN transferred_log :
        LET l == transferred_log[i] IN
        /\ l.new # l.orig
        /\ task[l.orig].attempt = 3
        /\ [key |-> l.new, src |-> l.orig] \in dest_objects
\* C19 (as claimed): when no listing request and no log write fails, every
\* store call returning with success or with an error, the run ends completed,
\* with every submitted call returned and the outcome of every key of the
\* bucket written to one of the logs.  Every run is finite and, the threads
\* being scheduled fairly, goes on until main has ended, so the claim is about
\* the states in which main has ended.
MainEnded == pc \in {"done", "aborted", "crashed", "sink_error"}

RunEndsCompleted ==
    (MainEnded /\ ~listingFailed /\ ~sinkFailed) =>
        /\ pc = "done"
        /\ \A k \in DOMAIN task : task[k].st = "returned"
        /\ \A k \in DOMAIN task : TimesRecorded(k) = 1

\* C20 (as claimed): an object a call has stored in the destination bucket is
\* not replaced by the content of another source key: every call that returned
\* success still has its object under its destination key.
NoDestinationCollision ==
    \A k \in DOMAIN task :
        (task[k].st = "returned" /\ task[k].success) =>
            [key |-> task[k].new_key, src |-> k] \in dest_objects

====
